---- MODULE Spec2Model ----
(***************************************************************************)
(* LearnCache offline snapshot engine.                                     *)
(*                                                                         *)
(* DownloadService.downloadSite, StorageService (metadata store and        *)
(* directory removal) and TutorialCrawlerService.downloadTutorial, as      *)
(* JavaScript async functions: every action is the code that runs between  *)
(* two awaits, so an action is atomic and actions of different calls       *)
(* interleave only at awaits.                                              *)
(***************************************************************************)
EXTENDS Integers, Sequences, FiniteSets, TLC

\* ------------------------------------------------------------------------
\* Bounds of the model
\* ------------------------------------------------------------------------
MaxAssets == 2      \* asset references found in one seed page
MaxAttempts == 2    \* downloadSite calls that are admitted
MaxFaults == 1      \* storage operations (file system, AsyncStorage) that fail
MaxDeletes == 1     \* deleteSite calls issued by the Saved Sites screen
MaxPages == 2       \* pages of a tutorial unit
MaxTutorials == 1   \* downloadTutorial calls
MaxClock == 2       \* readings of Date.now() that differ
MaxRefs == 2        \* asset references of a document that is rewritten
MaxLinks == 2       \* tutorial links of a seed page
MaxPageLinks == 2   \* page links of the entry page of a tutorial

Null == "null"
Min(a, b) == IF a <= b THEN a ELSE b
NoId == -1          \* no site id (currentDownloadId === null)
NoFile == <<>>      \* no file name
OldSiteId == 0      \* a site downloaded before the model starts
TutorialDir == 100  \* the directory `${siteName}_${tutorial.id}` of the tutorial

\* The call sites of DownloadService.getInstance().downloadSite
Callers == {"home", "saved"}

\* An asset reference is <<directory, base name, extension>>.  The
\* directories "." and "./assets" make it relative to the page that carries
\* it; any other directory makes it an absolute URL, "root" being the
\* directory of the page itself.  FullPage holds the references of the
\* longest page of the model in document order; the first and the third
\* share their last path segment.
FullPage == <<<<"css", "a", "css">>, <<"img", "b", "png">>,
              <<"lib", "a", "css">>, <<"js", "c", "js">>>>

\* The pages of the model: the first n references, n <= MaxAssets, and the
\* page of the two references that share their last path segment
Pages == {SubSeq(FullPage, 1, n) : n \in 0..Min(MaxAssets, Len(FullPage))}
           \cup {<<FullPage[1], FullPage[3]>>}

RECURSIVE Fact(_)
Fact(n) == IF n <= 1 THEN 1 ELSE n * Fact(n - 1)

\* Progress values are rationals; they are kept as integers in units of
\* 1/Scale so that completed/total is exact for every total <= MaxAssets.
Scale == Fact(MaxAssets)

Range(s) == {s[i] : i \in 1..Len(s)}

VARIABLES
  downloadInProgress,   \* DownloadService.downloadInProgress
  currentDownloadId,    \* DownloadService.currentDownloadId
  progressCallback,     \* DownloadService.progressCallback (the caller that registered it)
  sitePc,               \* position of each downloadSite call
  siteId,               \* const siteId of each call
  html,                 \* const processedHtml of performDownload (its asset references)
  assetList,            \* assetUrls of downloadAssets, in iteration order
  fileName,             \* const fileName of the asset being downloaded
  assetIdx,             \* position of the for-of loop over assetUrls
  completed,            \* let completed of downloadAssets
  sitesRead,            \* const sites: what getSavedSites returned to the call
  result,               \* how the call's promise settled
  events,               \* progress events delivered to each caller's sink
  nextId,               \* number of site ids generated so far
  page,                 \* the asset references of the remote seed page, in document order
  store,                \* AsyncStorage item saved_sites_metadata (array of records)
  fs,                   \* file system: path -> content
  faults,               \* storage faults injected so far
  delPc,                \* position of the screen's deleteSite call
  delId,                \* its siteId argument
  delSites,             \* its const filteredSites
  deletes,              \* deleteSite calls issued so far
  tutPc,                \* position of the downloadTutorial call
  totalPages,           \* tutorial.totalPages (= tutorial.pages.length)
  pageIdx,              \* let i of the page loop
  pageBody,             \* what the request of the current page answered
  elemIdx,              \* position of the loop over assetElements
  downloadedPages,      \* const downloadedPages
  tutResult,            \* how the call's promise settled
  tutEvents,            \* progress events delivered to the registered callback
  tutCalls,             \* downloadTutorial calls so far
  clock,                \* Date.now()
  doc,                  \* the asset references of a document that is rewritten
  rewrites,             \* the results of rewriting doc, in the order they were made
  runFlow,              \* the service whose asset loop is run over two orderings
  runOrder,             \* the references of the page, in the order of each run
  runAnswers,           \* the URLs that answer with status 200
  runPos,               \* position of the asset loop of each run
  runDir,               \* assets directory of each run: file name -> content
  crawlPc,              \* position of the crawlSiteForTutorials call
  seedLinks,            \* the tutorial links of the fetched seed page, in document order
  scanIdx,              \* position of discoverTutorials in its scan of the links
  tutorials,            \* const tutorials of discoverTutorials
  crawlResult           \* how the call settled

siteVars == <<downloadInProgress, currentDownloadId, progressCallback, sitePc,
              siteId, html, assetList, fileName, assetIdx, completed, sitesRead,
              result, events, nextId>>
delVars == <<delPc, delId, delSites, deletes>>
tutVars == <<tutPc, totalPages, pageIdx, pageBody, elemIdx, downloadedPages,
             tutResult, tutEvents, tutCalls>>
nameVars == <<clock, doc, rewrites>>
runVars == <<runFlow, runOrder, runAnswers, runPos, runDir>>
crawlVars == <<crawlPc, seedLinks, scanIdx, tutorials, crawlResult>>
vars == <<siteVars, page, store, fs, faults, delVars, tutVars, nameVars,
          runVars, crawlVars>>
\* what no downloadSite step touches, what no deleteSite step touches and
\* what no downloadTutorial step touches
beyondSite == <<page, delVars, tutVars, nameVars, runVars, crawlVars>>
beyondDelete == <<page, siteVars, tutVars, nameVars, runVars, crawlVars>>
beyondTutorial == <<page, siteVars, delVars, store, nameVars, runVars, crawlVars>>
\* what the rewriting, the two runs of the asset loop and the crawl leave alone
beyondNames == <<siteVars, page, store, fs, faults, delVars, tutVars, runVars,
                 crawlVars>>
beyondRuns == <<siteVars, page, store, fs, faults, delVars, tutVars, nameVars,
                crawlVars>>
beyondCrawl == <<siteVars, page, store, fs, faults, delVars, tutVars, nameVars,
                 runVars>>

\* ------------------------------------------------------------------------
\* File system (react-native-fs)
\* ------------------------------------------------------------------------
Exists(p) == p \in DOMAIN fs

WriteTo(f, p, content) ==
  [q \in DOMAIN f \cup {p} |-> IF q = p THEN content ELSE f[q]]

IsUnder(q, p) == Len(q) >= Len(p) /\ SubSeq(q, 1, Len(p)) = p

Unlink(f, p) == [q \in {r \in DOMAIN f : ~IsUnder(r, p)} |-> f[q]]

SitePath(id) == <<id>>
IndexPath(id) == <<id, "index.html">>
AssetsPath(id) == <<id, "assets">>

CanFault == faults < MaxFaults

\* ------------------------------------------------------------------------
\* StorageService
\* ------------------------------------------------------------------------
IndexOf(sites, id) ==
  IF \E i \in 1..Len(sites) : sites[i].id = id
  THEN CHOOSE i \in 1..Len(sites) :
         sites[i].id = id /\ \A j \in 1..(i - 1) : sites[j].id # id
  ELSE 0

\* saveSiteMetadata: replace the record with the same id, or push
Upsert(sites, site) ==
  IF IndexOf(sites, site.id) > 0
  THEN [sites EXCEPT ![IndexOf(sites, site.id)] = site]
  ELSE Append(sites, site)

RECURSIVE FilterOut(_, _)
FilterOut(sites, id) ==
  IF sites = <<>> THEN <<>>
  ELSE IF Head(sites).id = id THEN FilterOut(Tail(sites), id)
       ELSE <<Head(sites)>> \o FilterOut(Tail(sites), id)

StatusOf(sites, id) ==
  IF IndexOf(sites, id) > 0 THEN sites[IndexOf(sites, id)].status ELSE Null

Ids(sites) == {sites[i].id : i \in 1..Len(sites)}

\* getSavedSites (part_006 30-47): the parsed array, [] when the item is
\* missing, and [] as well when getItem or JSON.parse throws.
GetSavedSites(ok) == IF ok THEN store ELSE <<>>

\* ------------------------------------------------------------------------
\* DownloadService: pure helpers
\* ------------------------------------------------------------------------
Dir == <<"dir">>
Html(refs) == <<"html", refs>>
Bytes(url) == <<"bytes", url>>

IsRelative(url) == url[1] \in {".", "./assets"}

\* extractFileName 271-286: the last segment of the URL's path, with the
\* suffix asset when it has no extension; new URL(url) throws for a
\* reference that is not absolute and the name is asset_<Date.now()>.
\* A file name is <<base name, extension>>.
ExtractFileName(url, now) ==
  IF IsRelative(url) THEN <<"asset_" \o ToString(now), "">>
  ELSE IF url[3] = "" THEN <<url[2], "asset">>
  ELSE <<url[2], url[3]>>

AssetFilePath(id, name) == <<id, "assets", name>>

\* new URL(relativeUrl, baseUrl).href: a relative reference is resolved
\* against the URL of the page
ResolveUrl(ref) ==
  IF ref[1] = "." THEN <<"root", ref[2], ref[3]>>
  ELSE IF ref[1] = "./assets" THEN <<"assets", ref[2], ref[3]>>
  ELSE ref

RECURSIVE Dedup(_)
Dedup(s) ==
  IF s = <<>> THEN <<>>
  ELSE LET r == Dedup(SubSeq(s, 1, Len(s) - 1))
       IN  IF s[Len(s)] \in Range(r) THEN r ELSE Append(r, s[Len(s)])

IsCss(u) == u[3] = "css"
IsJs(u) == u[3] = "js"
IsImage(u) == u[3] \in {"png", "jpg", "jpeg", "gif", "svg", "ico"}

\* the three patterns of processHtmlForOffline (198, 207, 216) and of
\* downloadAssets (137-139)
MatchesPattern(u) == IsCss(u) \/ IsJs(u) \/ IsImage(u)

\* processHtmlForOffline: every reference that matches a pattern becomes
\* ./assets/<fileName>; the document keeps its order.
ProcessHtmlForOffline(refs, now) ==
  [i \in 1..Len(refs) |->
     IF MatchesPattern(refs[i])
     THEN <<"./assets", ExtractFileName(refs[i], now)[1],
                        ExtractFileName(refs[i], now)[2]>>
     ELSE refs[i]]

\* downloadAssets 135-152: the three patterns are scanned one after the
\* other over the html it is given, the matches are resolved and collected
\* in a Set (insertion order, no repetition).
ExtractAssetUrls(htmlContent) ==
  LET resolved == [i \in 1..Len(htmlContent) |-> ResolveUrl(htmlContent[i])]
  IN  Dedup(SelectSeq(resolved, IsCss) \o SelectSeq(resolved, IsJs)
            \o SelectSeq(resolved, IsImage))

\* the base of 66 forgotten
AssetProgressMutant(done, total) == (done * 34 * Scale) \div total

\* 66 + (completed / total) * 34, in units of 1/Scale
AssetProgress(done, total) == 66 * Scale + (done * 34 * Scale) \div total

\* reportProgress 310-320: Math.min(progress, 100)
ClampProgress(p) == Min(p, 100 * Scale)

Event(id, label, p) == [siteId |-> id, currentFile |-> label,
                        progress |-> ClampProgress(p)]

\* reportProgress delivers to the callback registered in the service
Deliver(evs) ==
  IF progressCallback # Null
  THEN events' = [events EXCEPT ![progressCallback] = @ \o evs]
  ELSE UNCHANGED events

\* the admission check left out
AdmissionOpenMutant == TRUE

\* line 22: the admission check
AdmissionOpen == ~downloadInProgress

NewSiteId == nextId + 1

\* The record downloadSite persists for its site
SiteRecord(id, status) == [id |-> id, status |-> status]

\* finally 88-92
ReleaseGate ==
  /\ downloadInProgress' = FALSE
  /\ currentDownloadId' = NoId
  /\ progressCallback' = Null

KeepGate == UNCHANGED <<downloadInProgress, currentDownloadId, progressCallback>>

KeepLoop == UNCHANGED <<html, assetList, fileName, assetIdx, completed>>

\* catch 69-76: with a current download id the handler reads the saved
\* sites; without one it rethrows at once and the finally block runs.
EnterCatch(c) ==
  IF currentDownloadId # NoId
  THEN /\ sitePc' = [sitePc EXCEPT ![c] = "catch_r"]
       /\ UNCHANGED result
       /\ KeepGate
  ELSE /\ sitePc' = [sitePc EXCEPT ![c] = "done"]
       /\ result' = [result EXCEPT ![c] = "threw"]
       /\ ReleaseGate

\* the error thrown out of the handler with the finally block left out
RethrowMutant(c) ==
  /\ sitePc' = [sitePc EXCEPT ![c] = "done"]
  /\ result' = [result EXCEPT ![c] = "threw"]
  /\ KeepGate

\* throw error (87) and finally
Rethrow(c) ==
  /\ sitePc' = [sitePc EXCEPT ![c] = "done"]
  /\ result' = [result EXCEPT ![c] = "threw"]
  /\ ReleaseGate

\* the throw placed inside the try block: the finally block runs
RejectMutant(c) ==
  /\ sitePc' = [sitePc EXCEPT ![c] = "rejected"]
  /\ result' = [result EXCEPT ![c] = "AlreadyInProgress"]
  /\ ReleaseGate

\* 22-24: the call throws before the try block, so no finally runs
Reject(c) ==
  /\ sitePc' = [sitePc EXCEPT ![c] = "rejected"]
  /\ result' = [result EXCEPT ![c] = "AlreadyInProgress"]
  /\ KeepGate

\* ------------------------------------------------------------------------
\* DownloadService.downloadSite, one action per await
\* ------------------------------------------------------------------------

\* 18-40: the admission check, the gate, the site id, the URL validation,
\* up to the call of RNFS.mkdir
SiteCall(c) ==
  /\ sitePc[c] = "idle"
  /\ \/ /\ ~AdmissionOpen
        /\ Reject(c)
        /\ UNCHANGED <<siteId, sitesRead, events, nextId>>
     \/ /\ AdmissionOpen
        /\ nextId < MaxAttempts
        /\ nextId' = NewSiteId
        /\ siteId' = [siteId EXCEPT ![c] = NewSiteId]
        /\ events' = [events EXCEPT ![c] = <<>>]
        /\ sitesRead' = [sitesRead EXCEPT ![c] = <<>>]
        /\ \E validUrl \in BOOLEAN :
             IF validUrl
             THEN /\ downloadInProgress' = TRUE
                  /\ progressCallback' = c
                  /\ currentDownloadId' = NewSiteId
                  /\ sitePc' = [sitePc EXCEPT ![c] = "mkdir"]
                  /\ result' = [result EXCEPT ![c] = Null]
             ELSE \* validateAndNormalizeUrl throws: catch with the id set
                  /\ downloadInProgress' = TRUE
                  /\ progressCallback' = c
                  /\ currentDownloadId' = NewSiteId
                  /\ sitePc' = [sitePc EXCEPT ![c] = "catch_r"]
                  /\ result' = [result EXCEPT ![c] = Null]
  /\ html' = [html EXCEPT ![c] = <<>>]
  /\ assetList' = [assetList EXCEPT ![c] = <<>>]
  /\ fileName' = [fileName EXCEPT ![c] = NoFile]
  /\ assetIdx' = [assetIdx EXCEPT ![c] = 0]
  /\ completed' = [completed EXCEPT ![c] = 0]
  /\ UNCHANGED <<store, fs, faults, beyondSite>>

\* 40-53: RNFS.mkdir(sitePath) settles; the initial record is built and
\* saveSiteMetadata starts reading
SiteMkdir(c) ==
  /\ sitePc[c] = "mkdir"
  /\ \/ /\ fs' = WriteTo(fs, SitePath(siteId[c]), Dir)
        /\ sitePc' = [sitePc EXCEPT ![c] = "save1_r"]
        /\ UNCHANGED <<faults, result>>
        /\ KeepGate
     \/ /\ CanFault
        /\ faults' = faults + 1
        /\ EnterCatch(c)
        /\ UNCHANGED fs
  /\ KeepLoop
  /\ UNCHANGED <<siteId, sitesRead, events, nextId, store, beyondSite>>

\* saveSiteMetadata 51: getSavedSites settles (it never throws)
SaveRead(c, from, to) ==
  /\ sitePc[c] = from
  /\ \/ /\ sitesRead' = [sitesRead EXCEPT ![c] = GetSavedSites(TRUE)]
        /\ UNCHANGED faults
     \/ /\ CanFault
        /\ faults' = faults + 1
        /\ sitesRead' = [sitesRead EXCEPT ![c] = GetSavedSites(FALSE)]
  /\ sitePc' = [sitePc EXCEPT ![c] = to]
  /\ KeepGate
  /\ KeepLoop
  /\ UNCHANGED <<siteId, result, events, nextId, store, fs, beyondSite>>

SiteSaveInitialRead(c) == SaveRead(c, "save1_r", "save1_w")

\* 53-106: AsyncStorage.setItem settles; performDownload reports the start
\* and requests the main page
SiteSaveInitialWrite(c) ==
  /\ sitePc[c] = "save1_w"
  /\ \/ /\ store' = Upsert(sitesRead[c], SiteRecord(siteId[c], "downloading"))
        /\ Deliver(<<Event(siteId[c], "Starting download...", 0)>>)
        /\ sitePc' = [sitePc EXCEPT ![c] = "fetch"]
        /\ UNCHANGED <<faults, result>>
        /\ KeepGate
     \/ /\ CanFault
        /\ faults' = faults + 1
        /\ EnterCatch(c)
        /\ UNCHANGED <<store, events>>
  /\ KeepLoop
  /\ UNCHANGED <<siteId, sitesRead, nextId, fs, beyondSite>>

\* 106-114: the main page request and the read of its body settle; on
\* success the page is processed and the write of index.html is issued
SiteFetchMain(c) ==
  /\ sitePc[c] = "fetch"
  /\ \/ /\ Deliver(<<Event(siteId[c], "Processing main page...", 33 * Scale)>>)
        /\ html' = [html EXCEPT ![c] = ProcessHtmlForOffline(page, clock)]
        /\ sitePc' = [sitePc EXCEPT ![c] = "windex"]
        /\ UNCHANGED result
        /\ KeepGate
     \/ \* network error, timeout or non-2xx status
        /\ EnterCatch(c)
        /\ UNCHANGED <<events, html>>
  /\ UNCHANGED <<assetList, fileName, assetIdx, completed>>
  /\ UNCHANGED <<siteId, sitesRead, nextId, store, fs, faults, beyondSite>>

\* 114-133: RNFS.writeFile(indexPath) settles; downloadAssets issues the
\* mkdir of the assets directory
SiteWriteIndex(c) ==
  /\ sitePc[c] = "windex"
  /\ \/ /\ Exists(SitePath(siteId[c]))
        /\ fs' = WriteTo(fs, IndexPath(siteId[c]), Html(html[c]))
        /\ Deliver(<<Event(siteId[c], "Downloading assets...", 66 * Scale)>>)
        /\ sitePc' = [sitePc EXCEPT ![c] = "amkdir"]
        /\ UNCHANGED <<faults, result>>
        /\ KeepGate
     \/ /\ CanFault
        /\ faults' = faults + 1
        /\ EnterCatch(c)
        /\ UNCHANGED <<fs, events>>
     \/ \* the directory was removed meanwhile: the write is rejected
        /\ ~Exists(SitePath(siteId[c]))
        /\ EnterCatch(c)
        /\ UNCHANGED <<fs, events, faults>>
  /\ KeepLoop
  /\ UNCHANGED <<siteId, sitesRead, nextId, store, beyondSite>>

\* RNFS.mkdir creates the missing parents as well
MkdirP(f, p) ==
  [q \in DOMAIN f \cup {SubSeq(p, 1, k) : k \in 1..Len(p)} |->
     IF q \in DOMAIN f THEN f[q] ELSE Dir]

\* the loop left after its first element
LoopToMutant(c, list, k, evs) ==
  /\ assetIdx' = [assetIdx EXCEPT ![c] = k]
  /\ fileName' = [fileName EXCEPT ![c] = NoFile]
  /\ sitePc' = [sitePc EXCEPT ![c] = IF k <= 1 /\ k <= Len(list)
                                      THEN "afetch" ELSE "save2_r"]
  /\ Deliver(evs)

\* The for-of loop over assetUrls moves to position k: the next request is
\* issued, or the loop ends, performDownload reports completion (121),
\* the directory size is computed (59, read-only, never throws) and
\* saveSiteMetadata(completedSite) starts reading.
LoopTo(c, list, k, evs) ==
  IF k <= Len(list)
  THEN /\ assetIdx' = [assetIdx EXCEPT ![c] = k]
       /\ fileName' = [fileName EXCEPT ![c] = ExtractFileName(list[k], clock)]
       /\ sitePc' = [sitePc EXCEPT ![c] = "afetch"]
       /\ Deliver(evs)
  ELSE /\ assetIdx' = [assetIdx EXCEPT ![c] = k]
       /\ fileName' = [fileName EXCEPT ![c] = NoFile]
       /\ sitePc' = [sitePc EXCEPT ![c] = "save2_r"]
       /\ Deliver(evs \o <<Event(siteId[c], "Download completed!", 100 * Scale)>>)

\* 133-163: RNFS.mkdir(assetsPath) settles; the asset URLs are extracted
\* from the html downloadAssets was given and the loop starts
SiteMkdirAssets(c) ==
  /\ sitePc[c] = "amkdir"
  /\ \/ /\ fs' = MkdirP(fs, AssetsPath(siteId[c]))
        /\ assetList' = [assetList EXCEPT ![c] = ExtractAssetUrls(html[c])]
        /\ completed' = [completed EXCEPT ![c] = 0]
        /\ LoopTo(c, ExtractAssetUrls(html[c]), 1, <<>>)
        /\ UNCHANGED <<faults, result, html>>
        /\ KeepGate
     \/ /\ CanFault
        /\ faults' = faults + 1
        /\ EnterCatch(c)
        /\ UNCHANGED <<fs, events>>
        /\ KeepLoop
  /\ UNCHANGED <<siteId, sitesRead, nextId, store, beyondSite>>

\* the loop body without its try/catch: the error leaves downloadAssets and
\* performDownload and reaches the catch of downloadSite
AssetFailedMutant(c) ==
  /\ sitePc' = [sitePc EXCEPT ![c] = "catch_r"]
  /\ UNCHANGED <<assetIdx, fileName, events>>

\* catch 184-187 of the loop body: the failure is logged, nothing is
\* reported and the loop goes on with the next asset
AssetFailed(c) == LoopTo(c, assetList[c], assetIdx[c] + 1, <<>>)

\* 163-179: the asset request, blob() and the FileReader settle; on success
\* the write of the asset file is issued, on failure the catch of the loop
\* body takes over
SiteFetchAsset(c) ==
  /\ sitePc[c] = "afetch"
  /\ \/ /\ sitePc' = [sitePc EXCEPT ![c] = "awrite"]
        /\ UNCHANGED <<assetIdx, fileName, events>>
     \/ AssetFailed(c)
  /\ UNCHANGED <<html, assetList, completed>>
  /\ KeepGate
  /\ UNCHANGED <<siteId, sitesRead, result, nextId, store, fs, faults, beyondSite>>

\* 179-188: RNFS.writeFile(assetPath) settles; on success completed++ and
\* the progress is reported, on failure the same catch logs
SiteWriteAsset(c) ==
  /\ sitePc[c] = "awrite"
  /\ \/ /\ Exists(AssetsPath(siteId[c]))
        /\ fs' = WriteTo(fs, AssetFilePath(siteId[c], fileName[c]),
                         Bytes(assetList[c][assetIdx[c]]))
        /\ completed' = [completed EXCEPT ![c] = @ + 1]
        /\ LoopTo(c, assetList[c], assetIdx[c] + 1,
                  <<Event(siteId[c], fileName[c],
                          AssetProgress(completed[c] + 1, Len(assetList[c])))>>)
        /\ UNCHANGED faults
     \/ /\ CanFault
        /\ faults' = faults + 1
        /\ LoopTo(c, assetList[c], assetIdx[c] + 1, <<>>)
        /\ UNCHANGED <<fs, completed>>
     \/ /\ ~Exists(AssetsPath(siteId[c]))
        /\ LoopTo(c, assetList[c], assetIdx[c] + 1, <<>>)
        /\ UNCHANGED <<fs, completed, faults>>
  /\ UNCHANGED <<html, assetList>>
  /\ KeepGate
  /\ UNCHANGED <<siteId, sitesRead, result, nextId, store, beyondSite>>

SiteSaveCompletedRead(c) == SaveRead(c, "save2_r", "save2_w")

\* 66-67 and finally: setItem settles; the call resolves with completedSite
SiteSaveCompletedWrite(c) ==
  /\ sitePc[c] = "save2_w"
  /\ \/ /\ store' = Upsert(sitesRead[c], SiteRecord(siteId[c], "completed"))
        /\ sitePc' = [sitePc EXCEPT ![c] = "done"]
        /\ result' = [result EXCEPT ![c] = "resolved"]
        /\ ReleaseGate
        /\ UNCHANGED faults
     \/ /\ CanFault
        /\ faults' = faults + 1
        /\ EnterCatch(c)
        /\ UNCHANGED store
  /\ KeepLoop
  /\ UNCHANGED <<siteId, sitesRead, events, nextId, fs, beyondSite>>

\* 76-80: getSavedSites settles in the catch handler; the record of the
\* current download is looked up and, when found, saved as failed
SiteCatchRead(c) ==
  /\ sitePc[c] = "catch_r"
  /\ \E ok \in BOOLEAN :
       /\ ok \/ CanFault
       /\ faults' = IF ok THEN faults ELSE faults + 1
       /\ LET sites == GetSavedSites(ok)
          IN  IF currentDownloadId # NoId /\ IndexOf(sites, currentDownloadId) > 0
              THEN /\ sitePc' = [sitePc EXCEPT ![c] = "catch_sr"]
                   /\ UNCHANGED result
                   /\ KeepGate
              ELSE Rethrow(c)
  /\ KeepLoop
  /\ UNCHANGED <<siteId, sitesRead, events, nextId, store, fs, beyondSite>>

SiteCatchSaveRead(c) == SaveRead(c, "catch_sr", "catch_sw")

\* 80-92: setItem of the failed record settles; a failure is logged (82-84);
\* the original error is rethrown and the finally block runs.  failedSite
\* is the record found at 77, whose id is the current download id.
SiteCatchSaveWrite(c) ==
  /\ sitePc[c] = "catch_sw"
  /\ \/ /\ store' = Upsert(sitesRead[c], SiteRecord(siteId[c], "failed"))
        /\ UNCHANGED faults
     \/ /\ CanFault
        /\ faults' = faults + 1
        /\ UNCHANGED store
  /\ Rethrow(c)
  /\ KeepLoop
  /\ UNCHANGED <<siteId, sitesRead, events, nextId, fs, beyondSite>>

\* The caller has seen the outcome and may call again
SiteReturn(c) ==
  /\ sitePc[c] \in {"done", "rejected"}
  /\ sitePc' = [sitePc EXCEPT ![c] = "idle"]
  /\ result' = [result EXCEPT ![c] = Null]
  /\ events' = [events EXCEPT ![c] = <<>>]
  /\ siteId' = [siteId EXCEPT ![c] = NoId]
  /\ sitesRead' = [sitesRead EXCEPT ![c] = <<>>]
  /\ html' = [html EXCEPT ![c] = <<>>]
  /\ assetList' = [assetList EXCEPT ![c] = <<>>]
  /\ fileName' = [fileName EXCEPT ![c] = NoFile]
  /\ assetIdx' = [assetIdx EXCEPT ![c] = 0]
  /\ completed' = [completed EXCEPT ![c] = 0]
  /\ KeepGate
  /\ UNCHANGED <<nextId, store, fs, faults, beyondSite>>

\* ------------------------------------------------------------------------
\* StorageService.deleteSite, called by the Saved Sites screen
\* (handleDeleteSite), one action per await
\* ------------------------------------------------------------------------

\* handleDeleteSite: the user confirms the removal of a listed site
DeleteCall ==
  /\ delPc = "idle"
  /\ deletes < MaxDeletes
  /\ \E id \in Ids(store) :
       delId' = id
  /\ delPc' = "d_read"
  /\ deletes' = deletes + 1
  /\ UNCHANGED <<beyondDelete, store, fs, faults, delSites>>

\* 70-72: getSavedSites settles, the list is filtered, setItem is issued
DeleteRead ==
  /\ delPc = "d_read"
  /\ \/ /\ delSites' = FilterOut(GetSavedSites(TRUE), delId)
        /\ UNCHANGED faults
     \/ /\ CanFault
        /\ faults' = faults + 1
        /\ delSites' = FilterOut(GetSavedSites(FALSE), delId)
  /\ delPc' = "d_write"
  /\ UNCHANGED <<beyondDelete, store, fs, delId, deletes>>

\* 72-76: setItem settles and RNFS.exists is issued
DeleteWrite ==
  /\ delPc = "d_write"
  /\ \/ /\ store' = delSites
        /\ delPc' = "d_exists"
        /\ UNCHANGED <<faults, delId, delSites>>
     \/ /\ CanFault
        /\ faults' = faults + 1
        /\ delPc' = "idle"
        /\ delId' = NoId
        /\ delSites' = <<>>
        /\ UNCHANGED store
  /\ UNCHANGED <<beyondDelete, fs, deletes>>

\* 76-78: RNFS.exists settles; unlink is issued when the path exists
DeleteExists ==
  /\ delPc = "d_exists"
  /\ IF Exists(SitePath(delId))
     THEN /\ delPc' = "d_unlink"
          /\ UNCHANGED <<delId, delSites>>
     ELSE /\ delPc' = "idle"
          /\ delId' = NoId
          /\ delSites' = <<>>
  /\ UNCHANGED <<beyondDelete, store, fs, faults, deletes>>

\* 78-83: RNFS.unlink settles
DeleteUnlink ==
  /\ delPc = "d_unlink"
  /\ \/ /\ fs' = Unlink(fs, SitePath(delId))
        /\ UNCHANGED faults
     \/ /\ CanFault
        /\ faults' = faults + 1
        /\ UNCHANGED fs
  /\ delPc' = "idle"
  /\ delId' = NoId
  /\ delSites' = <<>>
  /\ UNCHANGED <<beyondDelete, store, deletes>>

\* ------------------------------------------------------------------------
\* TutorialCrawlerService.downloadTutorial, one action per await.
\* The pages of the unit have order 0..totalPages-1; every page carries the
\* asset references of `page`.
\* ------------------------------------------------------------------------
PageFilePath(order) == <<TutorialDir, "pages", <<"page", ToString(order)>>>>
TutorialIndexPath == <<TutorialDir, "index.html">>
TutorialMetaPath == <<TutorialDir, "tutorial_metadata.json">>
TutorialAssetsPath == <<TutorialDir, "assets">>
TutorialAssetPath(name) == <<TutorialDir, "assets", name>>

\* TutorialCrawlerService.extractFileName: the last path segment
TutExtractFileName(url) == <<url[2], url[3]>>

TutEvent(cur, total, status) ==
  [currentPage |-> cur, totalPages |-> total, status |-> status]

\* getProgressPercentage (part_003 159-163): Math.round(cur / total * 100)
GetProgressPercentage(ev) ==
  IF ev.totalPages = 0 THEN 0
  ELSE (ev.currentPage * 200 + ev.totalPages) \div (2 * ev.totalPages)

PageEntry(order, ok) == [order |-> order, downloaded |-> ok]

\* catch 173-177: the failed event is reported and the error rethrown
TutFail ==
  /\ tutEvents' = Append(tutEvents, TutEvent(0, 0, "failed"))
  /\ tutResult' = "threw"
  /\ tutPc' = "done"
  /\ UNCHANGED <<totalPages, pageIdx, pageBody, elemIdx, downloadedPages>>

\* The page loop reaches i with downloadedPages dl: the page's progress is
\* reported and its request issued (105-120), or the loop is over and the
\* write of the index is issued (152)
PageLoopTo(i, dl, evs) ==
  /\ pageIdx' = i
  /\ downloadedPages' = dl
  /\ pageBody' = Null
  /\ elemIdx' = 0
  /\ UNCHANGED <<totalPages, tutResult>>
  /\ IF i < totalPages
     THEN /\ tutPc' = "t_fetch"
          /\ tutEvents' = tutEvents \o evs
                          \o <<TutEvent(i, totalPages, "downloading")>>
     ELSE /\ tutPc' = "t_index"
          /\ tutEvents' = tutEvents \o evs

\* the page loop without its try/catch: the error reaches the outer catch
PageFailedMutant == TutFail

\* catch 142-148: the page is recorded as not downloaded, the loop goes on
PageFailed ==
  PageLoopTo(pageIdx + 1,
             Append(downloadedPages, PageEntry(pageIdx, FALSE)), <<>>)

\* The loop over assetElements reaches k: RNFS.exists(assetPath) is issued
\* (513-521), or the loop is over, downloadPageAssets returns and the page
\* is recorded as downloaded (133-140)
ElementLoopTo(k) ==
  IF k <= Len(page)
  THEN /\ elemIdx' = k
       /\ tutPc' = "t_a_exists"
       /\ UNCHANGED <<totalPages, pageIdx, pageBody, downloadedPages,
                      tutResult, tutEvents>>
  ELSE PageLoopTo(pageIdx + 1,
                  Append(downloadedPages, PageEntry(pageIdx, TRUE)), <<>>)

\* handleDownloadSelected (part_003 99-108) calls downloadTutorial, which
\* runs up to the call of RNFS.mkdir (91-97); the Download button is
\* disabled while a tutorial download runs
TutCall ==
  /\ tutPc = "idle"
  /\ tutCalls < MaxTutorials
  /\ tutCalls' = tutCalls + 1
  /\ \E n \in 1..MaxPages : totalPages' = n
  /\ tutPc' = "t_mkdir"
  /\ UNCHANGED <<pageIdx, pageBody, elemIdx, downloadedPages, tutResult,
                 tutEvents>>
  /\ UNCHANGED <<fs, faults, beyondTutorial>>

\* 97-120: RNFS.mkdir(tutorialPath) settles
TutMkdir ==
  /\ tutPc = "t_mkdir"
  /\ \/ /\ fs' = MkdirP(fs, <<TutorialDir>>)
        /\ PageLoopTo(0, <<>>, <<TutEvent(0, totalPages, "downloading")>>)
        /\ UNCHANGED faults
     \/ /\ CanFault
        /\ faults' = faults + 1
        /\ TutFail
        /\ UNCHANGED fs
  /\ UNCHANGED <<tutCalls, beyondTutorial>>

\* 120-128: fetch(page.url) and text() settle.  The status of the answer is
\* not looked at: the body of any answer is processed and its write issued.
TutFetchPage ==
  /\ tutPc = "t_fetch"
  /\ \/ /\ \E body \in {"page", "errorpage"} : pageBody' = body
        /\ tutPc' = "t_wpage"
        /\ UNCHANGED <<totalPages, pageIdx, elemIdx, downloadedPages,
                       tutResult, tutEvents>>
     \/ \* network error: the request throws
        PageFailed
  /\ UNCHANGED <<fs, faults, tutCalls, beyondTutorial>>

\* 128-131 and 498-502: the write of the page settles; downloadPageAssets
\* issues RNFS.exists(assetsPath)
TutWritePage ==
  /\ tutPc = "t_wpage"
  /\ \/ /\ Exists(<<TutorialDir>>)
        /\ fs' = WriteTo(fs, PageFilePath(pageIdx), <<pageBody>>)
        /\ tutPc' = "t_aexists"
        /\ UNCHANGED <<totalPages, pageIdx, pageBody, elemIdx, downloadedPages,
                       tutResult, tutEvents>>
        /\ UNCHANGED faults
     \/ /\ CanFault
        /\ faults' = faults + 1
        /\ PageFailed
        /\ UNCHANGED fs
  /\ UNCHANGED <<tutCalls, beyondTutorial>>

\* 501-504: exists settles; the assets directory is created when missing
TutAssetsExists ==
  /\ tutPc = "t_aexists"
  /\ IF Exists(TutorialAssetsPath)
     THEN ElementLoopTo(1)
     ELSE /\ tutPc' = "t_amkdir"
          /\ UNCHANGED <<totalPages, pageIdx, pageBody, elemIdx,
                         downloadedPages, tutResult, tutEvents>>
  /\ UNCHANGED <<fs, faults, tutCalls, beyondTutorial>>

\* 503: mkdir settles; a failure is thrown out of downloadPageAssets into
\* the catch of the page
TutAssetsMkdir ==
  /\ tutPc = "t_amkdir"
  /\ \/ /\ fs' = MkdirP(fs, TutorialAssetsPath)
        /\ ElementLoopTo(1)
        /\ UNCHANGED faults
     \/ /\ CanFault
        /\ faults' = faults + 1
        /\ PageFailed
        /\ UNCHANGED fs
  /\ UNCHANGED <<tutCalls, beyondTutorial>>

\* the file is taken as missing whatever the directory holds
AssetPresentMutant(name) == FALSE

\* 521: await RNFS.exists(assetPath)
AssetPresent(name) == Exists(TutorialAssetPath(name))

\* 521-526: exists(assetPath) settles: an existing file is skipped,
\* otherwise the request of the asset is issued
TutAssetExists ==
  /\ tutPc = "t_a_exists"
  /\ IF AssetPresent(TutExtractFileName(page[elemIdx]))
     THEN ElementLoopTo(elemIdx + 1)
     ELSE /\ tutPc' = "t_a_fetch"
          /\ UNCHANGED <<totalPages, pageIdx, pageBody, elemIdx,
                         downloadedPages, tutResult, tutEvents>>
  /\ UNCHANGED <<fs, faults, tutCalls, beyondTutorial>>

\* 526-535: the request settles: with status 200 the write is issued; any
\* other status is skipped; an error is caught and logged
TutAssetFetch ==
  /\ tutPc = "t_a_fetch"
  /\ \/ /\ tutPc' = "t_a_write"
        /\ UNCHANGED <<totalPages, pageIdx, pageBody, elemIdx,
                       downloadedPages, tutResult, tutEvents>>
     \/ ElementLoopTo(elemIdx + 1)
  /\ UNCHANGED <<fs, faults, tutCalls, beyondTutorial>>

\* 530-535: the write of the asset settles; an error is caught and logged
TutAssetWrite ==
  /\ tutPc = "t_a_write"
  /\ \/ /\ Exists(TutorialAssetsPath)
        /\ fs' = WriteTo(fs, TutorialAssetPath(TutExtractFileName(page[elemIdx])),
                         Bytes(ResolveUrl(page[elemIdx])))
        /\ UNCHANGED faults
     \/ /\ CanFault
        /\ faults' = faults + 1
        /\ UNCHANGED fs
  /\ ElementLoopTo(elemIdx + 1)
  /\ UNCHANGED <<tutCalls, beyondTutorial>>

\* 152-161, 418: the write of index.html settles; the write of the
\* metadata file is issued
TutWriteIndex ==
  /\ tutPc = "t_index"
  /\ \/ /\ Exists(<<TutorialDir>>)
        /\ fs' = WriteTo(fs, TutorialIndexPath, <<"index", downloadedPages>>)
        /\ tutPc' = "t_meta"
        /\ UNCHANGED <<totalPages, pageIdx, pageBody, elemIdx, downloadedPages,
                       tutResult, tutEvents>>
        /\ UNCHANGED faults
     \/ /\ CanFault
        /\ faults' = faults + 1
        /\ TutFail
        /\ UNCHANGED fs
  /\ UNCHANGED <<tutCalls, beyondTutorial>>

\* 161-171, 574: the write of tutorial_metadata.json settles; the completed
\* event is reported and the call resolves
TutWriteMeta ==
  /\ tutPc = "t_meta"
  /\ \/ /\ Exists(<<TutorialDir>>)
        /\ fs' = WriteTo(fs, TutorialMetaPath, <<"metadata", downloadedPages>>)
        /\ tutEvents' = Append(tutEvents,
                               TutEvent(totalPages, totalPages, "completed"))
        /\ tutResult' = "resolved"
        /\ tutPc' = "done"
        /\ UNCHANGED <<totalPages, pageIdx, pageBody, elemIdx, downloadedPages>>
        /\ UNCHANGED faults
     \/ /\ CanFault
        /\ faults' = faults + 1
        /\ TutFail
        /\ UNCHANGED fs
  /\ UNCHANGED <<tutCalls, beyondTutorial>>

\* The screen has seen the outcome; the button is enabled again
TutReturn ==
  /\ tutPc = "done"
  /\ tutPc' = "idle"
  /\ totalPages' = 0
  /\ pageIdx' = 0
  /\ pageBody' = Null
  /\ elemIdx' = 0
  /\ downloadedPages' = <<>>
  /\ tutResult' = Null
  /\ tutEvents' = <<>>
  /\ UNCHANGED <<fs, faults, tutCalls, beyondTutorial>>

\* ------------------------------------------------------------------------
\* Rewriting a document for offline use: processHtmlForOffline of the
\* download service and processPageForOffline of the tutorial crawler,
\* applied to one document more than once while the clock goes on
\* ------------------------------------------------------------------------

\* The references a rewritten document is made of: two absolute ones with
\* the same last path segment, a relative one and an image
DocRefs == {<<"css", "a", "css">>, <<"lib", "a", "css">>,
            <<".", "s", "css">>, <<"img", "b", "png">>}

Docs == UNION {[1..n -> DocRefs] : n \in 0..MaxRefs}

\* isAssetUrl (Loading.tsx 484-488): the URL holds one of the extensions
IsAssetUrl(u) ==
  u[3] \in {"css", "js", "png", "jpg", "jpeg", "gif", "svg", "ico",
            "woff", "woff2", "ttf", "eot"}

\* processPageForOffline (Loading.tsx 306-318): src or href of every
\* resource element that is an asset URL becomes ./assets/<fileName>
ProcessPageForOffline(refs) ==
  [i \in 1..Len(refs) |->
     IF IsAssetUrl(refs[i])
     THEN <<"./assets", TutExtractFileName(refs[i])[1],
                        TutExtractFileName(refs[i])[2]>>
     ELSE refs[i]]

\* Both services rewrite the document d at time now
Rewrite(d, now) ==
  [site |-> ProcessHtmlForOffline(d, now), tutorial |-> ProcessPageForOffline(d)]

\* A document is fetched and rewritten
RewriteFirst ==
  /\ rewrites = <<>>
  /\ \E d \in Docs :
       /\ doc' = d
       /\ rewrites' = <<Rewrite(d, clock)>>
  /\ UNCHANGED <<clock, beyondNames>>

\* The same document is rewritten again
RewriteAgain ==
  /\ Len(rewrites) = 1
  /\ rewrites' = Append(rewrites, Rewrite(doc, clock))
  /\ UNCHANGED <<clock, doc, beyondNames>>

\* Time passes
Tick ==
  /\ clock < MaxClock
  /\ clock' = clock + 1
  /\ UNCHANGED <<doc, rewrites, beyondNames>>

\* ------------------------------------------------------------------------
\* The asset loops of downloadAssets and of downloadPageAssets, run over
\* two orderings of the references of one page with the same answers
\* ------------------------------------------------------------------------
Runs == {"A", "B"}

\* The asset URLs or elements the loop of the flow goes through for a page
\* whose references come in the given order: downloadAssets scans the
\* processed html (119, 135-152), downloadPageAssets takes the elements of
\* the page in document order (509-514)
RunList(flow, order) ==
  IF flow = "site"
  THEN ExtractAssetUrls(ProcessHtmlForOffline(order, clock))
  ELSE SelectSeq(order, IsAssetUrl)

\* downloadAssets 159-187 for one URL: a request that succeeds is written
\* under its file name; one that fails is logged
SiteAssetStep(dir, url) ==
  IF url \in runAnswers
  THEN WriteTo(dir, ExtractFileName(url, clock), Bytes(url))
  ELSE dir

\* downloadPageAssets 512-535 for one element: an existing name is skipped;
\* otherwise an answer with status 200 is written under the name
PageAssetStep(dir, ref) ==
  IF TutExtractFileName(ref) \in DOMAIN dir THEN dir
  ELSE IF ResolveUrl(ref) \in runAnswers
       THEN WriteTo(dir, TutExtractFileName(ref), Bytes(ResolveUrl(ref)))
       ELSE dir

\* A page is taken with its references in two orders, with the answers of
\* the network, and both runs start with an empty assets directory
RunStart ==
  /\ runFlow = "none"
  /\ \E flow \in {"site", "tutorial"} : runFlow' = flow
  /\ \E a, b \in Docs :
       /\ Len(a) = Len(b) /\ Range(a) = Range(b)
       /\ Cardinality(Range(a)) = Len(a)
       /\ runOrder' = [r \in Runs |-> IF r = "A" THEN a ELSE b]
       /\ \E ok \in SUBSET ({ResolveUrl(a[i]) : i \in 1..Len(a)}
                            \cup Range(ExtractAssetUrls(
                                         ProcessHtmlForOffline(a, clock)))) :
            runAnswers' = ok
  /\ runPos' = [r \in Runs |-> 1]
  /\ runDir' = [r \in Runs |-> <<>>]
  /\ UNCHANGED beyondRuns

\* One turn of the loop of run r
RunStep(r) ==
  /\ runFlow # "none"
  /\ runPos[r] <= Len(RunList(runFlow, runOrder[r]))
  /\ runDir' = [runDir EXCEPT ![r] =
                  IF runFlow = "site"
                  THEN SiteAssetStep(@, RunList(runFlow, runOrder[r])[runPos[r]])
                  ELSE PageAssetStep(@, RunList(runFlow, runOrder[r])[runPos[r]])]
  /\ runPos' = [runPos EXCEPT ![r] = @ + 1]
  /\ UNCHANGED <<runFlow, runOrder, runAnswers>>
  /\ UNCHANGED beyondRuns

\* ------------------------------------------------------------------------
\* Specification
\* ------------------------------------------------------------------------
Init ==
  /\ downloadInProgress = FALSE
  /\ currentDownloadId = NoId
  /\ progressCallback = Null
  /\ sitePc = [c \in Callers |-> "idle"]
  /\ siteId = [c \in Callers |-> NoId]
  /\ html = [c \in Callers |-> <<>>]
  /\ assetList = [c \in Callers |-> <<>>]
  /\ fileName = [c \in Callers |-> NoFile]
  /\ assetIdx = [c \in Callers |-> 0]
  /\ completed = [c \in Callers |-> 0]
  /\ sitesRead = [c \in Callers |-> <<>>]
  /\ result = [c \in Callers |-> Null]
  /\ events = [c \in Callers |-> <<>>]
  /\ nextId = 0
  /\ page \in Pages
  /\ store = <<SiteRecord(OldSiteId, "completed")>>
  /\ fs = (SitePath(OldSiteId) :> Dir) @@ (IndexPath(OldSiteId) :> Html(<<>>))
  /\ faults = 0
  /\ delPc = "idle"
  /\ delId = NoId
  /\ delSites = <<>>
  /\ deletes = 0
  /\ tutPc = "idle"
  /\ totalPages = 0
  /\ pageIdx = 0
  /\ pageBody = Null
  /\ elemIdx = 0
  /\ downloadedPages = <<>>
  /\ tutResult = Null
  /\ tutEvents = <<>>
  /\ tutCalls = 0
  /\ clock = 0
  /\ doc = <<>>
  /\ rewrites = <<>>
  /\ runFlow = "none"
  /\ runOrder = [r \in Runs |-> <<>>]
  /\ runAnswers = {}
  /\ runPos = [r \in Runs |-> 0]
  /\ runDir = [r \in Runs |-> <<>>]
  /\ crawlPc = "idle"
  /\ seedLinks = <<>>
  /\ scanIdx = 0
  /\ tutorials = <<>>
  /\ crawlResult = [status |-> "none", tutorials |-> <<>>]

SiteStep(c) ==
    \/ SiteCall(c)
    \/ SiteMkdir(c)
    \/ SiteSaveInitialRead(c)
    \/ SiteSaveInitialWrite(c)
    \/ SiteFetchMain(c)
    \/ SiteWriteIndex(c)
    \/ SiteMkdirAssets(c)
    \/ SiteFetchAsset(c)
    \/ SiteWriteAsset(c)
    \/ SiteSaveCompletedRead(c)
    \/ SiteSaveCompletedWrite(c)
    \/ SiteCatchRead(c)
    \/ SiteCatchSaveRead(c)
    \/ SiteCatchSaveWrite(c)
    \/ SiteReturn(c)

DeleteNext ==
  \/ DeleteCall
  \/ DeleteRead
  \/ DeleteWrite
  \/ DeleteExists
  \/ DeleteUnlink

\* The download service with its two callers
Next == \E c \in Callers : SiteStep(c)

Spec == Init /\ [][Next]_vars

\* One caller of the download service and the Saved Sites screen
StoreNext == SiteStep("home") \/ DeleteNext

SpecStore == Init /\ [][StoreNext]_vars

TutNext ==
  \/ TutCall
  \/ TutMkdir
  \/ TutFetchPage
  \/ TutWritePage
  \/ TutAssetsExists
  \/ TutAssetsMkdir
  \/ TutAssetExists
  \/ TutAssetFetch
  \/ TutAssetWrite
  \/ TutWriteIndex
  \/ TutWriteMeta
  \/ TutReturn

\* The tutorial download alone
SpecTutorial == Init /\ [][TutNext]_vars

\* The steps of downloadTutorial that wait for the local storage, which
\* always answers; its two requests (fetch(page.url) at 120 and
\* fetch(assetUrl) at 526) carry no signal and no timer, so a step that
\* waits for the network is taken only when the server answers
TutStorageStep ==
  \/ TutMkdir
  \/ TutWritePage
  \/ TutAssetsExists
  \/ TutAssetsMkdir
  \/ TutAssetExists
  \/ TutAssetWrite
  \/ TutWriteIndex
  \/ TutWriteMeta

\* downloadTutorial with a storage that always answers and a network that
\* may stay silent
SpecTutorialLive == Init /\ [][TutNext]_vars /\ WF_vars(TutStorageStep)

\* Both download flows of the process: one caller of the download service
\* and the tutorial screen
BothNext == SiteStep("home") \/ TutNext

SpecBoth == Init /\ [][BothNext]_vars

\* The rewriting of a document, twice, at any two times
NamesNext == RewriteFirst \/ RewriteAgain \/ Tick

SpecNames == Init /\ [][NamesNext]_vars

\* The asset loop of either flow over two orderings of one page
RunsNext == RunStart \/ \E r \in Runs : RunStep(r)

SpecRuns == Init /\ [][RunsNext]_vars

\* ------------------------------------------------------------------------
\* TutorialCrawlerService.crawlSiteForTutorials
\* ------------------------------------------------------------------------
\* A URL is <<scheme, host, first path segment, rest of the path>>; a
\* relative reference has an empty scheme and host, and either names a
\* sibling of its base (no first segment) or is resolved against a base at
\* the root of the site.  The query of a URL is left out:
\* <<"https", "site", "", "">> as the href of a tutorial link stands for
\* https://site/?p=tutorial, whose path is the root.  A title is <<its
\* letters and digits in lower case, its spelling>>.
SeedUrl == <<"https", "site", "", "">>

\* The i-th link of a seed page that lists numbered courses, and the i-th
\* chapter link of an entry page that lists numbered chapters
CourseLink(i) ==
  [href |-> <<"https", "site", "course", "tutorial-" \o ToString(i)>>,
   title |-> <<"course" \o ToString(i), "Course " \o ToString(i)>>]
ChapterLink(i) ==
  [href |-> <<"", "", "", "ch" \o ToString(i)>>, kind |-> "chapter"]

\* What the three titleSelector patterns can match on a seed page: every
\* href holds the word tutorial
TutorialLinks == {
  [href |-> <<"", "", "tutorial", "py">>,
   title |-> <<"pythontutorial", "Python Tutorial">>],
  [href |-> <<"https", "site", "tutorial", "py3">>,
   title |-> <<"pythontutorial", "python-tutorial">>],
  [href |-> <<"https", "site", "", "">>,
   title |-> <<"javaguide", "Java Guide">>],
  [href |-> <<"https", "site", "promo", "tutorial">>,
   title |-> <<"freecourse", "Free Course">>],
  [href |-> <<"http", "site", "tutorial", "go">>,
   title |-> <<"sponsoredtutorial", "Sponsored Tutorial">>] }

PageCap == 50
TutorialCap == 20

\* The seed pages of the model: up to MaxLinks links, and the page that
\* lists one course more than the result may hold
LongSeed == [i \in 1..(TutorialCap + 1) |-> CourseLink(i)]
SeedPages == UNION {[1..n -> TutorialLinks] : n \in 0..MaxLinks} \cup {LongSeed}

\* What the three pagePatterns can match on the entry page of a tutorial;
\* kind is the pattern that matches the link
PageLinks == {
  ChapterLink(1),
  [href |-> <<"https", "other", "tutorial", "ch2">>, kind |-> "chapter"],
  [href |-> <<"https", "site", "blog", "post">>, kind |-> "toc"],
  [href |-> <<"https", "site", "tutorial", "toc">>, kind |-> "nav"],
  [href |-> <<"https", "site", "blog", "tutorials">>, kind |-> "chapter"] }

\* The entry pages of the model: up to MaxPageLinks links, and the page
\* that lists as many chapters as a unit may hold pages, which is one more
\* than fits next to the entry page itself
LongEntry == [i \in 1..PageCap |-> ChapterLink(i)]
EntryPages == UNION {[1..n -> PageLinks] : n \in 0..MaxPageLinks} \cup {LongEntry}

\* What the entry page of a tutorial can be: the numbered courses after the
\* first have entry pages without page links
EntryPagesOf(tutorialUrl) ==
  IF tutorialUrl[3] = "course" /\ tutorialUrl # CourseLink(1).href
  THEN {<<>>}
  ELSE EntryPages

\* new URL(relativeUrl, baseUrl).href
ResolveLink(href, base) ==
  IF href[1] = ""
  THEN <<base[1], base[2], IF href[3] = "" THEN base[3] ELSE href[3], href[4]>>
  ELSE href

IsValidTutorialLink(title, href) ==
  /\ title[1] \in {"pythontutorial", "javaguide", "freecourse",
                   "sponsoredtutorial"}
                    \cup {CourseLink(i).title[1] : i \in 1..(TutorialCap + 1)}
  /\ title[1] # "advertisement"
  /\ title[1] # "sponsoredtutorial"
  /\ href[3] # "ads"
  /\ href[3] # "promo"

\* btoa(url).slice(0, 8) encodes the first six characters of the URL
UrlHash(url) == url[1]

GenerateTutorialId(title, url) == <<title[1], UrlHash(url)>>

\* s.includes(t), for the path segments of the model
Includes(s, t) ==
  t = "" \/ s = t \/ <<s, t>> \in {<<"tutorials", "tutorial">>}

\* pathname.split('/')[1]: the first segment of the path, empty for the root
FirstSegment(url) == IF url[3] # "" THEN url[3] ELSE url[4]

IsValidPageLink(pageUrl, baseUrl) ==
  /\ pageUrl[2] = baseUrl[2]
  /\ \/ Includes(pageUrl[3], FirstSegment(baseUrl))
     \/ Includes(pageUrl[4], FirstSegment(baseUrl))

\* The second and third titleSelector ask for a slash before the word
\* tutorial
SlashBeforeTutorial(href) == href[1] # "" \/ href[3] # "tutorial"

\* The matches of the three titleSelector patterns, in the order of the loop
ScanList(links) ==
  links \o SelectSeq(links, LAMBDA l : SlashBeforeTutorial(l.href))
       \o SelectSeq(links, LAMBDA l : SlashBeforeTutorial(l.href))

HasTutorial(tuts, id) == \E i \in 1..Len(tuts) : tuts[i].id = id

\* The loop of discoverTutorials up to its next await: the position of the
\* next link whose pages are discovered, or past the end
RECURSIVE NextCandidate(_, _, _)
NextCandidate(ms, k, tuts) ==
  IF k > Len(ms) THEN k
  ELSE IF /\ IsValidTutorialLink(ms[k].title, ms[k].href)
          /\ ~HasTutorial(tuts, GenerateTutorialId(ms[k].title,
                                  ResolveLink(ms[k].href, SeedUrl)))
       THEN k
       ELSE NextCandidate(ms, k + 1, tuts)

MainPage(tutorialUrl) == [url |-> tutorialUrl, order |-> 0]

\* The catch of discoverTutorialPages
CatchPagesMutant(tutorialUrl) == <<>>
CatchPages(tutorialUrl) == <<MainPage(tutorialUrl)>>

\* The matches of the three pagePatterns, in the order of the loop
PageMatches(links) ==
  SelectSeq(links, LAMBDA l : l.kind = "chapter")
    \o SelectSeq(links, LAMBDA l : l.kind = "nav")
    \o SelectSeq(links, LAMBDA l : l.kind = "toc")

\* The loop over the matches; only the chapter pattern has the third group
\* that pageTitle is taken from, so pageTitle.trim() throws for a valid link
\* of the other two and the catch answers
\* the test of the page count left out of the loop condition
PagesFullMutant(pages) == FALSE

\* pages.length < 50 of the loop condition, negated
PagesFull(pages) == Len(pages) >= PageCap

RECURSIVE ScanPages(_, _, _, _)
ScanPages(ms, k, pages, tutorialUrl) ==
  IF k > Len(ms) \/ PagesFull(pages) THEN pages
  ELSE LET pageUrl == ResolveLink(ms[k].href, tutorialUrl) IN
       IF ~IsValidPageLink(pageUrl, tutorialUrl)
       THEN ScanPages(ms, k + 1, pages, tutorialUrl)
       ELSE IF ms[k].kind # "chapter" THEN CatchPages(tutorialUrl)
       ELSE ScanPages(ms, k + 1,
                      Append(pages, [url |-> pageUrl, order |-> Len(pages)]),
                      tutorialUrl)

DiscoverTutorialPages(links, tutorialUrl) ==
  ScanPages(PageMatches(links), 1, <<MainPage(tutorialUrl)>>, tutorialUrl)

\* discoverTutorials from position k of its scan to its next await or its
\* return, and the return of crawlSiteForTutorials
ScanTo(links, k, tuts) ==
  LET n == NextCandidate(ScanList(links), k, tuts) IN
  /\ scanIdx' = n
  /\ tutorials' = tuts
  /\ IF n > Len(ScanList(links))
     THEN /\ crawlPc' = "done"
          /\ crawlResult' =
               [status |-> "resolved",
                tutorials |-> SubSeq(tuts, 1, Min(TutorialCap, Len(tuts)))]
     ELSE /\ crawlPc' = "pagefetch"
          /\ UNCHANGED crawlResult

\* The catch of crawlSiteForTutorials
CrawlThrow ==
  /\ crawlPc' = "done"
  /\ crawlResult' = [status |-> "threw", tutorials |-> <<>>]
  /\ UNCHANGED <<seedLinks, scanIdx, tutorials>>

\* tutorials.push of the link under the scan, with its pages
PushTutorial(pages) ==
  LET l == ScanList(seedLinks)[scanIdx]
      tutorialUrl == ResolveLink(l.href, SeedUrl) IN
  ScanTo(seedLinks, scanIdx + 1,
         Append(tutorials, [id |-> GenerateTutorialId(l.title, tutorialUrl),
                            title |-> l.title,
                            baseUrl |-> tutorialUrl,
                            pages |-> pages,
                            totalPages |-> Len(pages)]))

TutorialUrl == ResolveLink(ScanList(seedLinks)[scanIdx].href, SeedUrl)

\* handleDiscover calls crawlSiteForTutorials
CrawlCall ==
  /\ crawlPc \in {"idle", "done"}
  /\ crawlPc' = "seedfetch"
  /\ seedLinks' = <<>>
  /\ scanIdx' = 0
  /\ tutorials' = <<>>
  /\ crawlResult' = [status |-> "none", tutorials |-> <<>>]
  /\ UNCHANGED beyondCrawl

\* await fetch(url) settles
CrawlSeedFetch ==
  /\ crawlPc = "seedfetch"
  /\ \/ CrawlThrow
     \/ /\ crawlPc' = "seedtext"
        /\ UNCHANGED <<seedLinks, scanIdx, tutorials, crawlResult>>
  /\ UNCHANGED beyondCrawl

\* await response.text() settles; discoverTutorials starts
CrawlSeedText ==
  /\ crawlPc = "seedtext"
  /\ \/ CrawlThrow
     \/ \E links \in SeedPages :
          /\ seedLinks' = links
          /\ ScanTo(links, 1, <<>>)
  /\ UNCHANGED beyondCrawl

\* await fetch(tutorialUrl) of discoverTutorialPages settles
CrawlPageFetch ==
  /\ crawlPc = "pagefetch"
  /\ \/ /\ PushTutorial(CatchPages(TutorialUrl))
        /\ UNCHANGED seedLinks
     \/ /\ crawlPc' = "pagetext"
        /\ UNCHANGED <<seedLinks, scanIdx, tutorials, crawlResult>>
  /\ UNCHANGED beyondCrawl

\* await response.text() of discoverTutorialPages settles
CrawlPageText ==
  /\ crawlPc = "pagetext"
  /\ \/ PushTutorial(CatchPages(TutorialUrl))
     \/ \E links \in EntryPagesOf(TutorialUrl) :
          PushTutorial(DiscoverTutorialPages(links, TutorialUrl))
  /\ UNCHANGED seedLinks
  /\ UNCHANGED beyondCrawl

\* One discovery after another
CrawlNext ==
  CrawlCall \/ CrawlSeedFetch \/ CrawlSeedText \/ CrawlPageFetch \/ CrawlPageText

SpecCrawl == Init /\ [][CrawlNext]_vars

\* ------------------------------------------------------------------------
\* Properties
\* ------------------------------------------------------------------------

\* A downloadSite call is past the admission check and has not settled
Admitted(c) == sitePc[c] \notin {"idle", "rejected", "done"}

\* C1: at most one downloadSite call is past the admission check at a time,
\* and a call that arrives while another one is admitted is rejected with
\* AlreadyInProgress without touching the file system, the metadata store
\* or the network (it never reaches a step that issues a request).
C1_SingleFlight ==
  /\ [](Cardinality({c \in Callers : Admitted(c)}) <= 1)
  /\ [][\A c \in Callers :
          (/\ sitePc[c] = "idle"
           /\ sitePc'[c] # "idle"
           /\ \E d \in Callers \ {c} : Admitted(d))
          => /\ sitePc'[c] = "rejected"
             /\ result'[c] = "AlreadyInProgress"
             /\ fs' = fs
             /\ store' = store]_vars

C1_Witness ==
  \E c, d \in Callers :
    /\ Admitted(c)
    /\ sitePc[d] = "rejected"
    /\ result[d] = "AlreadyInProgress"

\* C3: a rejected downloadSite call leaves the active download as it was:
\* the gate stays closed, currentDownloadId and the registered callback keep
\* their values, and the file system and the metadata store are unchanged.
C3_RejectedCallChangesNothing ==
  [][\A c \in Callers :
       (sitePc[c] = "idle" /\ sitePc'[c] = "rejected")
       => /\ downloadInProgress /\ downloadInProgress'
          /\ currentDownloadId' = currentDownloadId
          /\ progressCallback' = progressCallback
          /\ fs' = fs
          /\ store' = store
          /\ \A d \in Callers \ {c} :
               sitePc'[d] = sitePc[d] /\ siteId'[d] = siteId[d]]_vars

C3_Witness ==
  \E c, d \in Callers :
    /\ sitePc[c] = "rejected"
    /\ Admitted(d)
    /\ downloadInProgress
    /\ currentDownloadId = siteId[d]
    /\ progressCallback = d
    /\ Exists(SitePath(siteId[d]))
    /\ StatusOf(store, siteId[d]) = "downloading"

\* A downloadTutorial call has started and has not settled
TutorialActive == tutPc \notin {"idle", "done"}

\* C2: at most one snapshot operation is in flight process-wide, site
\* downloads and tutorial downloads counted together.
C2_OneSnapshotInFlight ==
  Cardinality({c \in Callers : Admitted(c)})
    + (IF TutorialActive THEN 1 ELSE 0) <= 1

StatusRank(status) ==
  IF status = "downloading" THEN 0 ELSE 1

\* C4: the persisted status of a record moves only from downloading to
\* completed or failed: from one state to the next no record that stays in
\* the store goes back to downloading or changes its final status.
C4_StatusMonotonic ==
  [][\A id \in Ids(store) \cap Ids(store') :
       /\ StatusRank(StatusOf(store', id)) >= StatusRank(StatusOf(store, id))
       /\ StatusOf(store, id) \in {"completed", "failed"}
            => StatusOf(store', id) = StatusOf(store, id)]_vars

\* The terminal event of downloadSite is the one performDownload reports
\* last (121)
IsTerminalEvent(ev) == ev.currentFile = "Download completed!"

TerminalCount(evs) ==
  Cardinality({i \in 1..Len(evs) : IsTerminalEvent(evs[i])})

\* C5: every admitted attempt that has settled, completed or failed, has
\* delivered exactly one terminal progress event, and that event is the
\* last one delivered.
C5_OneTerminalEvent ==
  \A c \in Callers :
    sitePc[c] = "done"
    => /\ TerminalCount(events[c]) = 1
       /\ IsTerminalEvent(events[c][Len(events[c])])

\* C6: within one downloadSite attempt the progress values delivered to
\* the callback never decrease and lie in [0, 100].
C6_ProgressMonotonic ==
  \A c \in Callers :
    /\ \A i \in 1..Len(events[c]) :
         events[c][i].progress >= 0 /\ events[c][i].progress <= 100 * Scale
    /\ \A i \in 1..(Len(events[c]) - 1) :
         events[c][i].progress <= events[c][i + 1].progress

\* an attempt over MaxAssets assets of which one failed and the others not
C6_Witness ==
  \E c \in Callers :
    /\ sitePc[c] = "done"
    /\ result[c] = "resolved"
    /\ Len(assetList[c]) = MaxAssets
    /\ completed[c] = MaxAssets - 1
    /\ Len(events[c]) = 3 + completed[c] + 1
    /\ \E i \in 1..Len(events[c]) :
         events[c][i].progress > 66 * Scale /\ events[c][i].progress < 100 * Scale

\* C7: within one downloadTutorial attempt the percentage the screen
\* derives from each progress event never decreases from one event to the
\* next, the terminal event of a failed attempt included.
C7_TutorialPercentMonotonic ==
  \A i \in 1..(Len(tutEvents) - 1) :
    GetProgressPercentage(tutEvents[i])
      <= GetProgressPercentage(tutEvents[i + 1])

LastOf(s) == s[Len(s)]

\* C8: a failed asset fetch never aborts the snapshot.  In downloadSite the
\* step that fails leaves the written page and the record alone and the loop
\* moves to the next asset or to the completed event; in downloadTutorial it
\* moves to the next element or records the written page as downloaded.
\* With no storage failure an attempt that reached its assets ends completed.
C8_AssetFailureTolerated ==
  /\ [](\A c \in Callers :
          (sitePc[c] = "done" /\ faults = 0 /\ assetIdx[c] >= 1)
          => /\ result[c] = "resolved"
             /\ assetIdx[c] = Len(assetList[c]) + 1
             /\ Exists(IndexPath(siteId[c]))
             /\ StatusOf(store, siteId[c]) = "completed"
             /\ IsTerminalEvent(LastOf(events[c])))
  /\ []((tutPc = "done" /\ faults = 0)
          => /\ tutResult = "resolved"
             /\ LastOf(tutEvents).status = "completed")
  /\ [][\A c \in Callers :
          (/\ sitePc[c] = "afetch" /\ sitePc'[c] # "awrite"
           /\ <<sitePc[c], assetIdx[c]>>' # <<sitePc[c], assetIdx[c]>>)
          => /\ assetIdx'[c] = assetIdx[c] + 1
             /\ sitePc'[c] = IF assetIdx[c] < Len(assetList[c])
                             THEN "afetch" ELSE "save2_r"
             /\ result'[c] = result[c]
             /\ fs' = fs /\ store' = store]_vars
  /\ [][(tutPc = "t_a_fetch" /\ tutPc' \notin {"t_a_fetch", "t_a_write"})
          => /\ fs' = fs
             /\ Exists(PageFilePath(pageIdx))
             /\ \/ tutPc' = "t_a_exists" /\ elemIdx' = elemIdx + 1
                \/ /\ elemIdx = Len(page)
                   /\ tutPc' \in {"t_fetch", "t_index"}
                   /\ downloadedPages'
                        = Append(downloadedPages, PageEntry(pageIdx, TRUE))]_vars

\* both flows have settled over a page with assets, there was no storage
\* failure, and in each of them an asset is missing because its fetch failed
C8_Witness ==
  /\ faults = 0
  /\ \E c \in Callers :
       /\ sitePc[c] = "done" /\ result[c] = "resolved"
       /\ Len(assetList[c]) >= 1
       /\ completed[c] < Len(assetList[c])
       /\ StatusOf(store, siteId[c]) = "completed"
  /\ tutPc = "done" /\ tutResult = "resolved"
  /\ \E i \in 1..Len(page) :
       ~Exists(TutorialAssetPath(TutExtractFileName(page[i])))
  /\ \E i \in 1..Len(downloadedPages) : downloadedPages[i].downloaded

\* C9: in downloadTutorial every page is attempted in order whichever page
\* fetches fail, a page whose fetch fails is recorded with downloaded = false
\* and the loop goes on, and with no storage failure the unit finalizes: the
\* index and the metadata file are written with every page and the call
\* does not throw.
C9_PageFailuresRecovered ==
  /\ [](tutPc # "idle"
          => /\ Len(downloadedPages) = pageIdx
             /\ \A i \in 1..Len(downloadedPages) :
                  downloadedPages[i].order = i - 1)
  /\ []((tutPc = "done" /\ faults = 0)
          => /\ tutResult = "resolved"
             /\ Len(downloadedPages) = totalPages
             /\ Exists(TutorialIndexPath)
             /\ fs[TutorialIndexPath] = <<"index", downloadedPages>>
             /\ Exists(TutorialMetaPath)
             /\ fs[TutorialMetaPath] = <<"metadata", downloadedPages>>)
  /\ [][(tutPc = "t_fetch" /\ tutPc' # "t_wpage" /\ tutVars' # tutVars)
          => /\ downloadedPages'
                  = Append(downloadedPages, PageEntry(pageIdx, FALSE))
             /\ pageIdx' = pageIdx + 1
             /\ tutPc' \in {"t_fetch", "t_index"}
             /\ tutResult' = tutResult]_vars

\* a unit of MaxPages pages has finalized with a failed page before a
\* downloaded one
C9_Witness ==
  /\ tutPc = "done" /\ tutResult = "resolved" /\ faults = 0
  /\ totalPages = MaxPages
  /\ Len(downloadedPages) = MaxPages
  /\ ~downloadedPages[1].downloaded
  /\ downloadedPages[MaxPages].downloaded
  /\ fs[TutorialIndexPath] = <<"index", downloadedPages>>

\* C10: an attempt whose page loop ended with no page downloaded ends with
\* a terminal event of status failed.
C10_NoPageMeansFailed ==
  (/\ tutPc = "done"
   /\ Len(downloadedPages) = totalPages
   /\ \A i \in 1..Len(downloadedPages) : ~downloadedPages[i].downloaded)
  => LastOf(tutEvents).status = "failed"

\* the positions at which a call awaits the write of a directory or file
SiteWritePcs == {"mkdir", "windex", "amkdir", "awrite"}
TutWritePcs == {"t_mkdir", "t_wpage", "t_amkdir", "t_a_write", "t_index", "t_meta"}

\* C11: a failed write of a directory or file is fatal to the attempt: the
\* step in which the write fails takes downloadSite to its catch handler
\* and makes downloadTutorial throw; it is never absorbed by the loop.
C11_WriteFailureFatal ==
  /\ [][\A c \in Callers :
          (/\ sitePc[c] \in SiteWritePcs /\ sitePc'[c] # sitePc[c]
           /\ faults' = faults + 1)
          => sitePc'[c] \in {"catch_r", "done"}]_vars
  /\ [][(tutPc \in TutWritePcs /\ tutVars' # tutVars /\ faults' = faults + 1)
          => tutPc' = "done" /\ tutResult' = "threw"]_vars

\* C12: the body of an answer whose status is not 2xx is never written, and
\* a tutorial page answered that way is recorded with downloaded = false.
C12_NonOkIsFailure ==
  /\ [](\A p \in DOMAIN fs : fs[p] # <<"errorpage">>)
  /\ [][(tutPc = "t_fetch" /\ pageBody' = "errorpage")
          => /\ tutPc' # "t_wpage"
             /\ downloadedPages'
                  = Append(downloadedPages, PageEntry(pageIdx, FALSE))]_vars

\* C13: a downloadSite call that has thrown and whose record is persisted
\* leaves that record with status failed, and when the call never got past
\* the request of the seed page nothing exists under its assets directory.
C13_FailedStatusPersisted ==
  \A c \in Callers :
    (sitePc[c] = "done" /\ result[c] = "threw")
    => /\ siteId[c] \in Ids(store) => StatusOf(store, siteId[c]) = "failed"
       /\ html[c] = <<>>
            => \A p \in DOMAIN fs : ~IsUnder(p, AssetsPath(siteId[c]))

\* C14: the step that persists status completed for a site is taken by the
\* call that downloads it, after index.html was written and after the loop
\* over the discovered assets has passed its last element.
C14_CompletedLast ==
  [][\A id \in Ids(store') :
       (StatusOf(store', id) = "completed" /\ StatusOf(store, id) # "completed")
       => \E c \in Callers :
            /\ siteId[c] = id /\ sitePc[c] = "save2_w"
            /\ Exists(IndexPath(id))
            /\ fs[IndexPath(id)] = Html(html[c])
            /\ assetList[c] = ExtractAssetUrls(html[c])
            /\ assetIdx[c] = Len(assetList[c]) + 1
            /\ IsTerminalEvent(LastOf(events[c]))]_vars

\* completed is persisted for a site of MaxAssets assets, not all of which
\* were downloaded
C14_Witness ==
  \E c \in Callers :
    /\ sitePc[c] = "done" /\ result[c] = "resolved"
    /\ StatusOf(store, siteId[c]) = "completed"
    /\ Len(assetList[c]) = MaxAssets
    /\ completed[c] < MaxAssets
    /\ Exists(IndexPath(siteId[c]))

IsAssetFile(p) == Len(p) = 3 /\ p[2] = "assets"

LocalName(ref) == <<ref[2], ref[3]>>

\* C16: in a rewritten document two different source URLs never get the
\* same local file name, in either service.
C16_NamesInjective ==
  \A k \in 1..Len(rewrites) : \A i, j \in 1..Len(doc) :
    ResolveUrl(doc[i]) # ResolveUrl(doc[j])
    => /\ LocalName(rewrites[k].site[i]) # LocalName(rewrites[k].site[j])
       /\ LocalName(rewrites[k].tutorial[i]) # LocalName(rewrites[k].tutorial[j])

\* C17: rewriting the same document twice gives every reference the same
\* local file name both times, in either service.
C17_NamesDeterministic ==
  Len(rewrites) = 2
  => \A i \in 1..Len(doc) :
       /\ LocalName(rewrites[1].site[i]) = LocalName(rewrites[2].site[i])
       /\ LocalName(rewrites[1].tutorial[i]) = LocalName(rewrites[2].tutorial[i])

\* C18: after a downloadSite call whose asset requests all succeeded, every
\* reference of the written index.html that points into ./assets names an
\* existing file, which holds what the original reference of the page,
\* resolved against the page URL, answers.
C18_RewrittenAssetsPresent ==
  \A c \in Callers :
    (/\ sitePc[c] = "done" /\ result[c] = "resolved" /\ faults = 0
     /\ completed[c] = Len(assetList[c]))
    => \A i \in 1..Len(html[c]) :
         html[c][i][1] = "./assets"
         => /\ Exists(AssetFilePath(siteId[c], LocalName(html[c][i])))
            /\ fs[AssetFilePath(siteId[c], LocalName(html[c][i]))]
                 = Bytes(ResolveUrl(page[i]))

RunOver(r) == runFlow # "none" /\ runPos[r] > Len(RunList(runFlow, runOrder[r]))

\* C19: when the asset loop of a flow has gone through two orderings of the
\* same references with the same answers, both assets directories hold the
\* same files with the same contents.
C19_OrderIndependent ==
  (RunOver("A") /\ RunOver("B")) => runDir["A"] = runDir["B"]

\* C20: in every result of crawlSiteForTutorials each tutorial has a
\* non-empty page list whose first page has order 0 and the url that is the
\* baseUrl of the tutorial; a tutorial whose entry page could not be fetched
\* is pushed with that page alone and the discovery goes on to its result.
UnitWellFormed(u) ==
  /\ Len(u.pages) >= 1
  /\ u.pages[1].order = 0
  /\ u.pages[1].url = u.baseUrl

C20_UnitsStartAtBase ==
  /\ [](\A i \in 1..Len(crawlResult.tutorials) :
          UnitWellFormed(crawlResult.tutorials[i]))
  /\ [](crawlResult.status = "resolved" =>
          crawlResult.tutorials =
            SubSeq(tutorials, 1, Min(TutorialCap, Len(tutorials))))
  /\ [][(crawlPc = "pagefetch" /\ crawlPc' # "pagetext") =>
          /\ Len(tutorials') = Len(tutorials) + 1
          /\ SubSeq(tutorials', 1, Len(tutorials)) = tutorials
          /\ tutorials'[Len(tutorials')].baseUrl = TutorialUrl
          /\ tutorials'[Len(tutorials')].pages = <<MainPage(TutorialUrl)>>
          /\ crawlResult'.status # "threw"]_vars

\* A result with a single-page tutorial next to a tutorial of several pages
C20_Witness ==
  /\ crawlResult.status = "resolved"
  /\ \E i, j \in 1..Len(crawlResult.tutorials) :
        /\ Len(crawlResult.tutorials[i].pages) = 1
        /\ Len(crawlResult.tutorials[j].pages) >= 2

\* C21: a result of crawlSiteForTutorials holds at most 20 tutorials and
\* every tutorial, in the result and while it is discovered, at most 50
\* pages with its entry page, however many links the pages carry.
C21_Capped ==
  /\ Len(crawlResult.tutorials) <= 20
  /\ \A i \in 1..Len(tutorials) : Len(tutorials[i].pages) <= 50
  /\ \A i \in 1..Len(crawlResult.tutorials) :
        Len(crawlResult.tutorials[i].pages) <= 50

\* A seed page of 21 accepted courses, the first with 50 chapter links on
\* its entry page: 20 tutorials in the result, the first of 50 pages
C21_Witness ==
  /\ crawlResult.status = "resolved"
  /\ seedLinks = LongSeed
  /\ Len(tutorials) = 21
  /\ Len(crawlResult.tutorials) = 20
  /\ Len(crawlResult.tutorials[1].pages) = 50

\* C22: when discoverTutorials has returned, the tutorials have pairwise
\* distinct ids and every accepted link of the seed page is there with its
\* normalized title and its resolved URL: a link is merged into an earlier
\* one only when both agree, never when its URL differs.
C22_DedupByTitleAndUrl ==
  crawlResult.status = "resolved" =>
    /\ \A i, j \in 1..Len(tutorials) :
          tutorials[i].id = tutorials[j].id => i = j
    /\ \A k \in 1..Len(seedLinks) :
          IsValidTutorialLink(seedLinks[k].title, seedLinks[k].href) =>
            \E i \in 1..Len(tutorials) :
              /\ tutorials[i].baseUrl = ResolveLink(seedLinks[k].href, SeedUrl)
              /\ tutorials[i].title[1] = seedLinks[k].title[1]

\* C23: every page of a tutorial after its entry page has the host of the
\* tutorial's base URL and a path segment in common with it, whatever the
\* path of the base URL is.
PathSegments(url) == {url[3], url[4]} \ {""}

C23_PagesUnderBase ==
  \A i \in 1..Len(tutorials) :
    \A k \in 2..Len(tutorials[i].pages) :
      /\ tutorials[i].pages[k].url[2] = tutorials[i].baseUrl[2]
      /\ PathSegments(tutorials[i].pages[k].url)
            \cap PathSegments(tutorials[i].baseUrl) # {}

\* C24: when deleteSite(id) returns or throws, the record of id and the
\* directory of id are both gone or both still there.
C24_DeleteAtomic ==
  [][(delPc # "idle" /\ delPc' = "idle") =>
       ((delId \in Ids(store')) <=> (SitePath(delId) \in DOMAIN fs'))]_vars

\* C25: every request is bounded by the timeout, so a download that has
\* started always comes to its end, also when a server never answers.
C25_AttemptsTerminate ==
  [](tutPc \notin {"idle", "done"} => <>(tutPc = "done"))

\* C26: the index written by downloadTutorial lists every page of the unit
\* once and in order, and shows a page as downloaded exactly when the file
\* of that page was written.
C26_IndexMatchesFiles ==
  (tutPc \in {"t_meta", "done"} /\ Exists(TutorialIndexPath)) =>
    LET listed == fs[TutorialIndexPath][2] IN
    /\ Len(listed) = totalPages
    /\ \A k \in 1..Len(listed) :
          /\ listed[k].order = k - 1
          /\ listed[k].downloaded <=> Exists(PageFilePath(k - 1))

\* C27: when an admitted downloadSite call resolves or throws, on whatever
\* path, downloadInProgress is false and currentDownloadId is null, and
\* with no call in flight the next call is admitted.
SiteInFlight(c) == sitePc[c] \notin {"idle", "done", "rejected"}

C27_GateReleased ==
  /\ []((\A c \in Callers : ~SiteInFlight(c)) =>
          (~downloadInProgress /\ currentDownloadId = NoId /\ AdmissionOpen))
  /\ [][\A c \in Callers :
          (SiteInFlight(c) /\ sitePc'[c] = "done") =>
            (~downloadInProgress' /\ currentDownloadId' = NoId)]_vars

\* A call has thrown after a storage failure inside its error handler, and
\* the next call has been admitted
C27_Witness ==
  \E c, d \in Callers :
    /\ sitePc[c] = "done"
    /\ result[c] = "threw"
    /\ StatusOf(store, siteId[c]) = "downloading"
    /\ SiteInFlight(d)
    /\ downloadInProgress

\* C28: a step of saveSiteMetadata(s) or deleteSite(id) that writes the
\* store leaves every record with another id in the store as it was, also
\* when the read of the store failed.
C28_OtherRecordsKept ==
  [][store' # store =>
       \E id \in {siteId[c] : c \in Callers} \cup {delId} :
         \A i \in 1..Len(store) :
           store[i].id # id => store[i] \in Range(store')]_vars

\* C29: a downloadSite call that has reported 100% 'Download completed!'
\* ends resolved with its record saved as completed.
ReportedCompleted(c) ==
  \E k \in 1..Len(events[c]) : events[c][k].currentFile = "Download completed!"

C29_CompletedEventIsFinal ==
  \A c \in Callers :
    (sitePc[c] = "done" /\ ReportedCompleted(c)) =>
      (result[c] = "resolved" /\ StatusOf(store, siteId[c]) = "completed")

\* C30: in every state a record with status completed has its directory
\* and its index.html on disk, also while deleteSite and downloadSite
\* interleave.
C30_CompletedIsOnDisk ==
  \A i \in 1..Len(store) :
    store[i].status = "completed" =>
      (Exists(SitePath(store[i].id)) /\ Exists(IndexPath(store[i].id)))

====
